---- MODULE Spec2Model ----
(***************************************************************************)
(* Model of app_streamlit_grab_text.py: the visible-text extraction        *)
(* (is_hidden, visible_text_nodes, extract_all_visible_text), the export   *)
(* file naming (safe_name) and the batch loop of the Streamlit page.       *)
(*                                                                         *)
(* Text is a sequence of one-character strings; the character U+00A0 is    *)
(* written NBSP.  A parsed document is a tree of node records; the node    *)
(* kinds are those of the parse-tree library: "tag" and the string kinds   *)
(* "text", "comment" and "doctype".                                        *)
(***************************************************************************)
EXTENDS Integers, Sequences, FiniteSets, TLC

\* ------------------------------------------------------------------ bounds
MaxBlocks == 2
MaxTitleBlocks == 1
MaxTextLen == 5
MaxShortLines == 2
MaxLines == 11
MaxQueryReps == 6

\* --------------------------------------------------------------- constants
MAX_LINKS == 10
QuerySuffixLen == 24

\* ------------------------------------------------------------- characters
NBSP == "nbsp"
NL == "\n"
TAB == "\t"
SP == " "

\* What str.strip() with no argument removes (the members the inputs use).
Whitespace == {SP, TAB, NL, NBSP}

UpperSeq == <<"A","B","C","D","E","F","G","H","I","J","K","L","M",
              "N","O","P","Q","R","S","T","U","V","W","X","Y","Z">>
LowerSeq == <<"a","b","c","d","e","f","g","h","i","j","k","l","m",
              "n","o","p","q","r","s","t","u","v","w","x","y","z">>
DigitSeq == <<"0","1","2","3","4","5","6","7","8","9">>

Range(s) == {s[i] : i \in DOMAIN s}

LowerChar(c) ==
  IF \E i \in DOMAIN UpperSeq : UpperSeq[i] = c
  THEN LowerSeq[CHOOSE i \in DOMAIN UpperSeq : UpperSeq[i] = c]
  ELSE c

\* str.lower()
Lower(s) == [i \in DOMAIN s |-> LowerChar(s[i])]

\* sub in s
Contains(s, sub) ==
  \E i \in 1..(Len(s) - Len(sub) + 1) : SubSeq(s, i, i + Len(sub) - 1) = sub

RECURSIVE LStripSet(_, _)
LStripSet(s, cs) ==
  IF s # <<>> /\ Head(s) \in cs THEN LStripSet(Tail(s), cs) ELSE s

RECURSIVE RStripSet(_, _)
RStripSet(s, cs) ==
  IF s # <<>> /\ s[Len(s)] \in cs THEN RStripSet(SubSeq(s, 1, Len(s) - 1), cs) ELSE s

\* str.strip(chars)
StripSet(s, cs) == RStripSet(LStripSet(s, cs), cs)

\* str.strip()
Strip(s) == StripSet(s, Whitespace)

\* str.replace(old, new) for a one-character old
ReplaceChar(s, old, new) == [i \in DOMAIN s |-> IF s[i] = old THEN new ELSE s[i]]

\* re.sub(r"[cs]+", repl, s): every maximal run of characters of cs becomes repl
RECURSIVE SubRuns(_, _, _)
SubRuns(s, cs, repl) ==
  IF s = <<>> THEN <<>>
  ELSE IF Head(s) \in cs THEN repl \o SubRuns(LStripSet(s, cs), cs, repl)
  ELSE <<Head(s)>> \o SubRuns(Tail(s), cs, repl)

\* re.sub(r"c{n,}", repl, s): every maximal run of at least n c's becomes repl
RECURSIVE SubLongRuns(_, _, _, _)
SubLongRuns(s, c, n, repl) ==
  IF s = <<>> THEN <<>>
  ELSE IF Head(s) = c
  THEN LET rest == LStripSet(s, {c})
           run == Len(s) - Len(rest)
       IN (IF run >= n THEN repl ELSE SubSeq(s, 1, run)) \o SubLongRuns(rest, c, n, repl)
  ELSE <<Head(s)>> \o SubLongRuns(Tail(s), c, n, repl)

\* sep.join(items)
RECURSIVE JoinWith(_, _)
JoinWith(sep, items) ==
  IF items = <<>> THEN <<>>
  ELSE IF Len(items) = 1 THEN items[1]
  ELSE items[1] \o sep \o JoinWith(sep, Tail(items))

\* ------------------------------------------------------------ parse tree
\* An attribute is <<>> when absent and <<value>> when present.
NoAttrs == [style |-> <<>>, aria_hidden |-> <<>>, hidden |-> <<>>]

Tag(name, attrs, contents) ==
  [id |-> <<>>, kind |-> "tag", name |-> name, attrs |-> attrs, s |-> <<>>,
   contents |-> contents]

Str(kind, s) ==
  [id |-> <<>>, kind |-> kind, name |-> "", attrs |-> NoAttrs, s |-> s,
   contents |-> <<>>]

Text(s) == Str("text", s)
Comment(s) == Str("comment", s)
Doctype(s) == Str("doctype", s)

\* The BeautifulSoup object: the root of the tree, a tag without attributes.
Soup(contents) == Tag("[document]", NoAttrs, contents)

\* The parser gives every node its identity; here, its place in the parsed tree.
RECURSIVE Label(_, _)
Label(n, path) ==
  [n EXCEPT !.id = path,
            !.contents = [i \in DOMAIN n.contents |->
                            Label(n.contents[i], Append(path, i))]]

\* el.get(name): None is <<>> here, as is the empty string after "or ''"
GetOrEmpty(el, name) ==
  LET v == el.attrs[name] IN IF v = <<>> THEN <<>> ELSE v[1]

HasAttr(el, name) == el.attrs[name] # <<>>

DISPLAY_NONE == <<"d","i","s","p","l","a","y",":","n","o","n","e">>
VISIBILITY_HIDDEN == <<"v","i","s","i","b","i","l","i","t","y",":","h","i","d","d","e","n">>
TRUE_STR == <<"t","r","u","e">>

\* is_hidden without the .lower() calls
is_hidden_CaseSensitive(el) ==
  LET style == GetOrEmpty(el, "style")
      aria_hidden == GetOrEmpty(el, "aria_hidden")
  IN IF Contains(style, DISPLAY_NONE) \/ Contains(style, VISIBILITY_HIDDEN) THEN TRUE
     ELSE IF aria_hidden = TRUE_STR THEN TRUE
     ELSE IF HasAttr(el, "hidden") THEN TRUE
     ELSE FALSE

is_hidden(el) ==
  LET style == Lower(GetOrEmpty(el, "style"))
      aria_hidden == Lower(GetOrEmpty(el, "aria_hidden"))
  IN IF Contains(style, DISPLAY_NONE) \/ Contains(style, VISIBILITY_HIDDEN) THEN TRUE
     ELSE IF aria_hidden = TRUE_STR THEN TRUE
     ELSE IF HasAttr(el, "hidden") THEN TRUE
     ELSE FALSE

\* Tag.descendants: every node below n, in the order the parser met them.
RECURSIVE DescendantsOfList(_)
DescendantsOfList(cs) ==
  IF cs = <<>> THEN <<>>
  ELSE <<Head(cs)>> \o DescendantsOfList(Head(cs).contents) \o DescendantsOfList(Tail(cs))

Descendants(n) == DescendantsOfList(n.contents)

\* soup([names]): find_all by tag name
FindAllTags(soup_, names) ==
  SelectSeq(Descendants(soup_), LAMBDA d : d.kind = "tag" /\ d.name \in names)

\* soup.find_all(string=lambda t: isinstance(t, Comment))
FindAllComments(soup_) ==
  SelectSeq(Descendants(soup_), LAMBDA d : d.kind = "comment")

\* find_all(text=True) with hiding handed down from an element to its children
RECURSIVE StringsOfList_Inherited(_, _)
StringsOfList_Inherited(parent, cs) ==
  IF cs = <<>> THEN <<>>
  ELSE (IF Head(cs).kind = "tag"
        THEN StringsOfList_Inherited(
               IF is_hidden(parent) THEN [Head(cs) EXCEPT !.attrs = parent.attrs]
               ELSE Head(cs),
               Head(cs).contents)
        ELSE <<[el |-> Head(cs), parent |-> parent]>>)
       \o StringsOfList_Inherited(parent, Tail(cs))

\* find_all(text=True) walking the children from the last to the first
RECURSIVE StringsOfList_Reversed(_, _)
StringsOfList_Reversed(parent, cs) ==
  IF cs = <<>> THEN <<>>
  ELSE StringsOfList_Reversed(parent, Tail(cs))
       \o (IF Head(cs).kind = "tag"
           THEN StringsOfList_Reversed(Head(cs), Head(cs).contents)
           ELSE <<[el |-> Head(cs), parent |-> parent]>>)

\* soup.find_all(text=True): every string node, each with its parent
RECURSIVE StringsOfList(_, _)
StringsOfList(parent, cs) ==
  IF cs = <<>> THEN <<>>
  ELSE (IF Head(cs).kind = "tag"
        THEN StringsOfList(Head(cs), Head(cs).contents)
        ELSE <<[el |-> Head(cs), parent |-> parent]>>)
       \o StringsOfList(parent, Tail(cs))

FindAllStrings(soup_) == StringsOfList(soup_, soup_.contents)

\* decompose() / extract(): the node leaves the tree, with everything below it
RECURSIVE RemoveNode(_, _)
RemoveNode(n, id) ==
  LET kept == SelectSeq(n.contents, LAMBDA c : c.id # id)
  IN [n EXCEPT !.contents = [i \in DOMAIN kept |-> RemoveNode(kept[i], id)]]

\* The tag list without template
BadTags_NoTemplate == {"script", "style", "noscript"}

BadTags == {"script", "style", "noscript", "template"}

\* ---------------------------------------------------------------- title
\* soup.title: the first tag named title, or None (<<>>)
FindTitle(soup_) ==
  LET ts == FindAllTags(soup_, {"title"}) IN IF ts = <<>> THEN <<>> ELSE <<ts[1]>>

\* Tag.string: the only child when it is a string, the only child's .string
\* when it is a tag, and None (<<>>) otherwise
RECURSIVE DotString(_)
DotString(el) ==
  IF Len(el.contents) # 1 THEN <<>>
  ELSE IF el.contents[1].kind = "tag" THEN DotString(el.contents[1])
  ELSE <<el.contents[1]>>

\* Tag.get_text(strip=True): the text strings below el, each stripped, the
\* empty ones dropped, joined by ""
GetTextStrip(el) ==
  LET strs == SelectSeq(Descendants(el), LAMBDA d : d.kind = "text" /\ Strip(d.s) # <<>>)
  IN JoinWith(<<>>, [i \in DOMAIN strs |-> Strip(strs[i].s)])

TitleOf(soup_) ==
  LET t == FindTitle(soup_)
  IN IF t # <<>> /\ DotString(t[1]) # <<>> /\ DotString(t[1])[1].s # <<>>
     THEN GetTextStrip(t[1])
     ELSE <<>>

\* ------------------------------------------------- extraction, as functions
\* for bad in soup([...]): bad.decompose()
RECURSIVE DecomposeAll(_, _)
DecomposeAll(soup_, found) ==
  IF found = <<>> THEN soup_
  ELSE DecomposeAll(RemoveNode(soup_, Head(found).id), Tail(found))

\* Lines 41-46: the tree without the unwanted tags and without the comments
Sanitized(soup_) ==
  LET s1 == DecomposeAll(soup_, FindAllTags(soup_, BadTags))
  IN DecomposeAll(s1, FindAllComments(s1))

\* if parent and is_hidden(parent): continue
SkipsHidden(e) == is_hidden(e.parent)

\* The blank test without "not txt.strip()"
SkipsBlank_EmptyOnly(e) == e.el.s = <<>>

\* if not txt or not txt.strip(): continue
SkipsBlank(e) == e.el.s = <<>> \/ Strip(e.el.s) = <<>>

\* What the generator yields for one string node (the id is the node's, kept
\* beside the text to tell fragments of equal text apart)
Yielded(e) == [id |-> e.el.id, txt |-> e.el.s]

visible_text_nodes(soup_) ==
  LET kept == SelectSeq(FindAllStrings(Sanitized(soup_)),
                        LAMBDA e : ~SkipsHidden(e) /\ ~SkipsBlank(e))
  IN [i \in DOMAIN kept |-> Yielded(kept[i])]

\* "\n".join(p.strip() for p in parts if p.strip())
JoinParts(ps) ==
  LET kept == SelectSeq(ps, LAMBDA p : Strip(p.txt) # <<>>)
  IN JoinWith(<<NL>>, [i \in DOMAIN kept |-> Strip(kept[i].txt)])

\* The replacement left out
ReplaceNbsp_Noop(s) == s

\* full.replace(U+00A0, " ")
ReplaceNbsp(s) == ReplaceChar(s, NBSP, SP)

\* re.sub(r"[ \t]+", " ", full)
CollapseSpaces(s) == SubRuns(s, {SP, TAB}, <<SP>>)

\* re.sub(r"\n{3,}", "\n\n", full).strip()
CollapseNewlines(s) == Strip(SubLongRuns(s, NL, 3, <<NL, NL>>))

extract_all_visible_text(html_) ==
  LET soup_ == Label(html_, <<>>)
  IN [title |-> TitleOf(soup_),
      text |-> CollapseNewlines(CollapseSpaces(ReplaceNbsp(
                 JoinParts(visible_text_nodes(soup_)))))]

\* ---------------------------------------------------------- file naming
Letters == Range(UpperSeq) \cup Range(LowerSeq)
Digits == Range(DigitSeq)
Alnum == Letters \cup Digits

\* s.find of the first character of chars, 0 when there is none
FindFirst(s, chars) ==
  IF \E i \in DOMAIN s : s[i] \in chars
  THEN CHOOSE i \in DOMAIN s : s[i] \in chars /\ \A j \in 1..(i - 1) : s[j] \notin chars
  ELSE 0

DropFirst(s, n) == SubSeq(s, n + 1, Len(s))

\* urlparse(url): the scheme up to the first ":", the netloc after "//" up to
\* the next "/", "?" or "#", then the fragment, the query and the path
Urlparse(url) ==
  LET colon == FindFirst(url, {":"})
      hasScheme == /\ colon > 1
                   /\ url[1] \in Letters
                   /\ \A j \in 1..(colon - 1) : url[j] \in Alnum \cup {"+", "-", "."}
      scheme == IF hasScheme THEN Lower(SubSeq(url, 1, colon - 1)) ELSE <<>>
      r1 == IF hasScheme THEN DropFirst(url, colon) ELSE url
      hasNetloc == Len(r1) >= 2 /\ SubSeq(r1, 1, 2) = <<"/", "/">>
      afterSlashes == DropFirst(r1, 2)
      delim == FindFirst(afterSlashes, {"/", "?", "#"})
      netloc == IF ~hasNetloc THEN <<>>
                ELSE IF delim = 0 THEN afterSlashes
                ELSE SubSeq(afterSlashes, 1, delim - 1)
      r2 == IF ~hasNetloc THEN r1
            ELSE IF delim = 0 THEN <<>>
            ELSE DropFirst(afterSlashes, delim - 1)
      hash == FindFirst(r2, {"#"})
      r3 == IF hash = 0 THEN r2 ELSE SubSeq(r2, 1, hash - 1)
      qmark == FindFirst(r3, {"?"})
  IN [scheme |-> scheme,
      netloc |-> netloc,
      path |-> IF qmark = 0 THEN r3 ELSE SubSeq(r3, 1, qmark - 1),
      query |-> IF qmark = 0 THEN <<>> ELSE DropFirst(r3, qmark)]

\* f"{idx:02d}"
RECURSIVE Decimal(_)
Decimal(n) ==
  IF n < 10 THEN <<DigitSeq[n + 1]>> ELSE Decimal(n \div 10) \o <<DigitSeq[(n % 10) + 1]>>

Format02d(idx) == IF idx < 10 THEN <<"0">> \o Decimal(idx) ELSE Decimal(idx)

\* x or default
OrElse(x, default) == IF x = <<>> THEN default ELSE x

SITE == <<"s","i","t","e">>
INDEX == <<"i","n","d","e","x">>
DOT_TXT == <<".","t","x","t">>

\* s[:n]
Prefix(s, n) == SubSeq(s, 1, IF Len(s) < n THEN Len(s) ELSE n)

\* The suffix without the [:24]
QuerySuffix_NoTruncation(q) ==
  StripSet(SubRuns(q, Range(q) \ Alnum, <<"_">>), {"_"})

\* re.sub(r'[^A-Za-z0-9]+','_',q)[:24].strip('_')
QuerySuffix(q) ==
  StripSet(Prefix(SubRuns(q, Range(q) \ Alnum, <<"_">>), QuerySuffixLen), {"_"})

safe_name(idx, url) ==
  LET p == Urlparse(url)
      host == ReplaceChar(OrElse(p.netloc, SITE), ":", "_")
      tail0 == ReplaceChar(OrElse(StripSet(p.path, {"/"}), INDEX), "/", "_")
      q == Strip(p.query)
      tail == IF q # <<>> THEN tail0 \o <<"_">> \o QuerySuffix(q) ELSE tail0
  IN Format02d(idx) \o <<"_">> \o host \o <<"_">> \o OrElse(tail, INDEX) \o DOT_TXT

\* ------------------------------------------------------------- batch loop
Row(url, title_, text, notes) ==
  [url |-> url, title |-> title_, text |-> text, notes |-> notes]

\* list(dict.fromkeys(urls)): the first occurrence of each, in order
RECURSIVE FromKeys(_, _)
FromKeys(items, seen) ==
  IF items = <<>> THEN <<>>
  ELSE IF Head(items) \in seen THEN FromKeys(Tail(items), seen)
  ELSE <<Head(items)>> \o FromKeys(Tail(items), seen \cup {Head(items)})

\* urls = [u.strip() for u in urls_text.splitlines() if u.strip()]
\* urls = list(dict.fromkeys(urls))[:MAX_LINKS]
BatchUrls(lines) ==
  LET stripped == [i \in DOMAIN lines |-> Strip(lines[i])]
      kept == SelectSeq(stripped, LAMBDA u : u # <<>>)
  IN Prefix(FromKeys(kept, {}), MAX_LINKS)

ERROR_PREFIX == <<"E","r","r","o","r",":",SP>>

\* Row(url=u, title=title, text=text, notes=notes)
OkRow(u, page) ==
  LET r == extract_all_visible_text(page) IN Row(u, r.title, r.text, <<>>)

\* The except branch without its note
ErrorRow_NoNote(u, e) == Row(u, <<>>, <<>>, <<>>)

\* Row(url=u, title="", text="", notes=f"Error: {e}")
ErrorRow(u, e) == Row(u, <<>>, <<>>, ERROR_PREFIX \o e)

\* ------------------------------------------------------------- the inputs
StyleAttr(v) == [NoAttrs EXCEPT !.style = <<v>>]
AriaAttr(v) == [NoAttrs EXCEPT !.aria_hidden = <<v>>]
HiddenAttr(v) == [NoAttrs EXCEPT !.hidden = <<v>>]

UpperChar(c) ==
  IF \E i \in DOMAIN LowerSeq : LowerSeq[i] = c
  THEN UpperSeq[CHOOSE i \in DOMAIN LowerSeq : LowerSeq[i] = c]
  ELSE c

Upper(s) == [i \in DOMAIN s |-> UpperChar(s[i])]

COLOR_RED == <<"c","o","l","o","r",":","r","e","d">>
FALSE_STR == <<"f","a","l","s","e">>

\* Attribute sets that hide an element
HidingAttrs ==
  { StyleAttr(DISPLAY_NONE),
    StyleAttr(Upper(DISPLAY_NONE)),
    StyleAttr(COLOR_RED \o <<";", SP>> \o VISIBILITY_HIDDEN \o <<";">>),
    AriaAttr(TRUE_STR),
    AriaAttr(<<"T","r","u","e">>),
    HiddenAttr(<<>>),
    HiddenAttr(FALSE_STR) }

\* Attribute sets that do not
PlainAttrs ==
  { NoAttrs,
    StyleAttr(COLOR_RED),
    StyleAttr(<<"d","i","s","p","l","a","y",":",SP,"n","o","n","e">>),
    AriaAttr(FALSE_STR),
    AriaAttr(<<>>) }

BlockTexts == { <<"a">>, <<SP, "b", NL>>, <<SP, TAB>>, <<"c", NBSP, NBSP, "d">> }

Blocks ==
  { Text(t) : t \in BlockTexts }
  \cup { Tag("p", a, <<Text(<<"h">>)>>) : a \in HidingAttrs \cup PlainAttrs }
  \cup { Tag("div", a, <<Tag("span", NoAttrs, <<Text(<<"g">>)>>)>>) :
           a \in { StyleAttr(DISPLAY_NONE), StyleAttr(VISIBILITY_HIDDEN),
                   AriaAttr(TRUE_STR), HiddenAttr(<<>>) } }
  \cup { Tag("div", NoAttrs,
             <<Tag("span", StyleAttr(DISPLAY_NONE), <<Text(<<"i">>)>>), Text(<<"j">>)>>),
         Tag("script", NoAttrs, <<Text(<<"x">>)>>),
         Tag("style", NoAttrs, <<Text(<<"y">>)>>),
         Tag("noscript", NoAttrs, <<Tag("p", NoAttrs, <<Text(<<"n">>)>>)>>),
         Tag("template", NoAttrs,
             <<Tag("div", NoAttrs,
                   <<Tag("script", NoAttrs, <<Text(<<"x">>)>>), Text(<<"t">>)>>)>>),
         Tag("div", NoAttrs,
             <<Tag("style", NoAttrs, <<Text(<<"y">>)>>), Text(<<"k">>),
               Comment(<<"s">>)>>),
         Comment(<<"s", "e">>),
         Doctype(<<"h","t","m","l">>) }

\* The contents of the head element
TitleShapes ==
  { <<>>,
    <<Tag("title", NoAttrs, <<>>)>>,
    <<Tag("title", NoAttrs, <<Text(<<SP, NL>>)>>)>>,
    <<Tag("title", NoAttrs, <<Text(<<SP, "M", "y", SP, "P", SP, NL>>)>>)>>,
    <<Tag("title", NoAttrs, <<Tag("b", NoAttrs, <<Text(<<SP, "M", SP>>)>>)>>)>>,
    <<Tag("title", NoAttrs, <<Text(<<"M", "y", SP>>), Tag("b", NoAttrs, <<Text(<<"P">>)>>)>>)>>,
    <<Tag("title", NoAttrs, <<Comment(<<"s">>)>>)>> }

Page(head, body) ==
  Soup(<<Tag("html", NoAttrs, <<Tag("head", NoAttrs, head), Tag("body", NoAttrs, body)>>)>>)

\* <html><head><title>Test</title></head><body><p>Hello&nbsp;World</p>
\* <span style="display:none">Hidden</span></body></html>
ExampleDoc ==
  Page(<<Tag("title", NoAttrs, <<Text(<<"T","e","s","t">>)>>)>>,
       <<Tag("p", NoAttrs, <<Text(<<"H","e","l","l","o",NBSP,"W","o","r","l","d">>)>>),
         Tag("span", StyleAttr(DISPLAY_NONE), <<Text(<<"H","i","d","d","e","n">>)>>)>>)

\* The characters of the text of a one-paragraph document
TextAlphabet == {"a", SP, TAB, NL, NBSP}

\* A document that is one paragraph holding one text node
TextDoc(t) == Soup(<<Tag("p", NoAttrs, <<Text(t)>>)>>)

\* A document with the usual title and the given subtrees in its body
TreeDoc(bs) == Page(<<Tag("title", NoAttrs, <<Text(<<"T">>)>>)>>, bs)

\* The documents extract_all_visible_text is run on
IsDoc(h) ==
  \/ h = ExampleDoc
  \/ \E k \in 1..MaxTextLen : \E t \in [1..k -> TextAlphabet] : h = TextDoc(t)
  \/ \E k \in 0..MaxBlocks : \E bs \in [1..k -> Blocks] : h = TreeDoc(bs)
  \/ \E ts \in TitleShapes :
       \E k \in 0..MaxTitleBlocks : \E bs \in [1..k -> Blocks] : h = Page(ts, bs)

\* The text area's content, as its lines
HTTP == <<"h","t","t","p",":","/","/">>
HOST == <<"x",".","y">>

RECURSIVE Repeat(_, _)
Repeat(unit, n) == IF n = 0 THEN <<>> ELSE unit \o Repeat(unit, n - 1)

QueryUnits == { <<"a","b","=","c","&">>, <<"a","b","c","=","&">>, <<"k","K","7","k","k">> }

QueryUrls ==
  { HTTP \o HOST \o <<"/","a","?">> \o Repeat(u, n) : u \in QueryUnits, n \in 0..MaxQueryReps }

SmallUrls ==
  { HTTP \o HOST,
    HTTP \o HOST \o <<"/">>,
    HTTP \o HOST \o <<"/","a","/","b","/">>,
    HTTP \o HOST \o <<":","8","0","/","a","?","q","=","1","&","r","=","2">>,
    HOST \o <<"/","a">>,
    <<"H","T","T","P",":","/","/","X",".","Y","/","A","_","b","?","Q","#","f">>,
    HTTP \o HOST \o <<"/","?","=","&">>,
    HTTP \o HOST \o <<"/","a","?">> \o Repeat(<<"a","b","=","c","&">>, 5) }

ShortLines ==
  { <<>>, <<SP, TAB>> }
  \cup SmallUrls
  \cup { <<SP>> \o HTTP \o HOST \o <<TAB>>, <<TAB>> \o HOST \o <<"/","a">> \o <<SP, SP>> }

NumberedUrl(k) == HTTP \o HOST \o <<"/","p">> \o Decimal(k)

LongInputs ==
  UNION { { [k \in 1..n |-> NumberedUrl(k)],
            [k \in 1..n |-> IF k = 3 THEN <<SP>> ELSE NumberedUrl(k)],
            [k \in 1..n |-> NumberedUrl(((k - 1) % 3) + 1)],
            [k \in 1..n |-> NumberedUrl((k + 1) \div 2)] } :
          n \in (MAX_LINKS + 1)..MaxLines }

\* The contents of the text area the batch is run on
IsBatchInput(t) ==
  \/ \E k \in 0..MaxShortLines : t \in [1..k -> ShortLines]
  \/ \E u \in QueryUrls : t = <<u>>
  \/ t \in LongInputs

\* What a successful fetch of a URL returns
Web(u) ==
  IF Urlparse(u).query = <<>> THEN ExampleDoc ELSE Page(<<>>, <<Text(<<SP, "a", NL>>)>>)

\* str(e) of a failed fetch
FetchError == <<"4","0","4">>

\* --------------------------------------- extract_all_visible_text, stepwise
VARIABLES html, soup, pc, title, bads, comments, els, parts, full,
          urls_text, urls, rows, outcomes, ix, fnames

xvars == <<html, soup, pc, title, bads, comments, els, parts, full>>
bvars == <<urls_text, urls, rows, outcomes, ix, fnames>>
vars == <<xvars, bvars>>

\* The page before the button is pressed
BatchIdle ==
  /\ urls = <<>>
  /\ rows = <<>>
  /\ outcomes = <<>>
  /\ ix = 0
  /\ fnames = <<>>

Init ==
  /\ urls_text = <<>>
  /\ BatchIdle
  /\ IsDoc(html)
  /\ soup = Soup(<<>>)
  /\ pc = "parse"
  /\ title = <<>>
  /\ bads = <<>>
  /\ comments = <<>>
  /\ els = <<>>
  /\ parts = <<>>
  /\ full = <<>>

\* soup = BeautifulSoup(html, "html.parser")
Parse ==
  /\ pc = "parse"
  /\ soup' = Label(html, <<>>)
  /\ pc' = "title"
  /\ UNCHANGED <<html, title, bads, comments, els, parts, full, bvars>>

\* title = soup.title.get_text(strip=True) if soup.title and soup.title.string else ""
DeriveTitle ==
  /\ pc = "title"
  /\ title' = TitleOf(soup)
  /\ bads' = FindAllTags(soup, BadTags)
  /\ pc' = "decompose"
  /\ UNCHANGED <<html, soup, comments, els, parts, full, bvars>>

\* for bad in soup([...]): bad.decompose()
DecomposeStep ==
  /\ pc = "decompose"
  /\ bads # <<>>
  /\ soup' = RemoveNode(soup, Head(bads).id)
  /\ bads' = Tail(bads)
  /\ UNCHANGED <<html, pc, title, comments, els, parts, full, bvars>>

FindComments ==
  /\ pc = "decompose"
  /\ bads = <<>>
  /\ comments' = FindAllComments(soup)
  /\ pc' = "comments"
  /\ UNCHANGED <<html, soup, title, bads, els, parts, full, bvars>>

\* for c in soup.find_all(string=...): c.extract()
ExtractStep ==
  /\ pc = "comments"
  /\ comments # <<>>
  /\ soup' = RemoveNode(soup, Head(comments).id)
  /\ comments' = Tail(comments)
  /\ UNCHANGED <<html, pc, title, bads, els, parts, full, bvars>>

FindText ==
  /\ pc = "comments"
  /\ comments = <<>>
  /\ els' = FindAllStrings(soup)
  /\ pc' = "collect"
  /\ UNCHANGED <<html, soup, title, bads, comments, parts, full, bvars>>

\* One turn of "for el in soup.find_all(text=True)", and of the caller's
\* "for t in visible_text_nodes(soup): parts.append(t)"
CollectStep ==
  /\ pc = "collect"
  /\ els # <<>>
  /\ parts' = IF SkipsHidden(Head(els)) \/ SkipsBlank(Head(els))
              THEN parts
              ELSE Append(parts, Yielded(Head(els)))
  /\ els' = Tail(els)
  /\ UNCHANGED <<html, soup, pc, title, bads, comments, full, bvars>>

Join ==
  /\ pc = "collect"
  /\ els = <<>>
  /\ full' = JoinParts(parts)
  /\ pc' = "nbsp"
  /\ UNCHANGED <<html, soup, title, bads, comments, els, parts, bvars>>

Nbsp ==
  /\ pc = "nbsp"
  /\ full' = ReplaceNbsp(full)
  /\ pc' = "spaces"
  /\ UNCHANGED <<html, soup, title, bads, comments, els, parts, bvars>>

Spaces ==
  /\ pc = "spaces"
  /\ full' = CollapseSpaces(full)
  /\ pc' = "newlines"
  /\ UNCHANGED <<html, soup, title, bads, comments, els, parts, bvars>>

Newlines ==
  /\ pc = "newlines"
  /\ full' = CollapseNewlines(full)
  /\ pc' = "done"
  /\ UNCHANGED <<html, soup, title, bads, comments, els, parts, bvars>>

Next ==
  \/ Parse
  \/ DeriveTitle
  \/ DecomposeStep
  \/ FindComments
  \/ ExtractStep
  \/ FindText
  \/ CollectStep
  \/ Join
  \/ Nbsp
  \/ Spaces
  \/ Newlines

Spec == Init /\ [][Next]_vars

\* -------------------------------------------------- the batch ("if start")
BatchInit ==
  /\ IsBatchInput(urls_text)
  /\ BatchIdle
  /\ html = Soup(<<>>)
  /\ soup = Soup(<<>>)
  /\ pc = "batch"
  /\ title = <<>>
  /\ bads = <<>>
  /\ comments = <<>>
  /\ els = <<>>
  /\ parts = <<>>
  /\ full = <<>>

\* The button: the URL list is built; an empty list stops the run
Start ==
  /\ pc = "batch"
  /\ urls' = BatchUrls(urls_text)
  /\ pc' = IF BatchUrls(urls_text) = <<>> THEN "stopped" ELSE "loop"
  /\ ix' = 1
  /\ UNCHANGED <<html, soup, title, bads, comments, els, parts, full,
                 urls_text, rows, outcomes, fnames>>

\* One turn of the loop whose fetch and extraction succeed
FetchOk ==
  /\ pc = "loop"
  /\ ix <= Len(urls)
  /\ rows' = Append(rows, OkRow(urls[ix], Web(urls[ix])))
  /\ outcomes' = Append(outcomes, "ok")
  /\ ix' = ix + 1
  /\ UNCHANGED <<xvars, urls_text, urls, fnames>>

\* One turn of the loop in which fetch_html raises
FetchFails ==
  /\ pc = "loop"
  /\ ix <= Len(urls)
  /\ rows' = Append(rows, ErrorRow(urls[ix], FetchError))
  /\ outcomes' = Append(outcomes, "failed")
  /\ ix' = ix + 1
  /\ UNCHANGED <<xvars, urls_text, urls, fnames>>

LoopEnds ==
  /\ pc = "loop"
  /\ ix > Len(urls)
  /\ pc' = "zip"
  /\ ix' = 1
  /\ UNCHANGED <<html, soup, title, bads, comments, els, parts, full,
                 urls_text, urls, rows, outcomes, fnames>>

\* for idx, r in enumerate(rows, start=1): fname = safe_name(idx, r.url)
ZipStep ==
  /\ pc = "zip"
  /\ ix <= Len(rows)
  /\ fnames' = Append(fnames, safe_name(ix, rows[ix].url))
  /\ ix' = ix + 1
  /\ UNCHANGED <<xvars, urls_text, urls, rows, outcomes>>

ZipEnds ==
  /\ pc = "zip"
  /\ ix > Len(rows)
  /\ pc' = "zipped"
  /\ UNCHANGED <<html, soup, title, bads, comments, els, parts, full, bvars>>

BatchNext ==
  \/ Start
  \/ FetchOk
  \/ FetchFails
  \/ LoopEnds
  \/ ZipStep
  \/ ZipEnds

SpecBatch == BatchInit /\ [][BatchNext]_vars

\* The stepwise run and the function agree on the result.
StepwiseAgrees ==
  pc = "done" =>
    extract_all_visible_text(html) = [title |-> title, text |-> full]

\* ------------------------------------------- the document, for the claims
\* The parsed document before anything is removed from it
Doc == Label(html, <<>>)

Nodes == Range(Descendants(Doc))

StringNodes == {n \in Nodes : n.kind # "tag"}

\* The node at a place of the document (its own id set, not those below it)
RECURSIVE Walk(_, _)
Walk(n, id) == IF id = <<>> THEN n ELSE Walk(n.contents[Head(id)], Tail(id))

NodeAt(id) == [Walk(html, id) EXCEPT !.id = id]

ParentNode(n) == NodeAt(SubSeq(n.id, 1, Len(n.id) - 1))

\* The elements above n, the direct parent and the root included
Ancestors(n) == {NodeAt(SubSeq(n.id, 1, k)) : k \in 0..(Len(n.id) - 1)}

InBadSubtree(n) == \E a \in Ancestors(n) : a.name \in {"script", "style", "noscript", "template"}

\* Document order: depth first, left to right
Before(p, q) ==
  \E k \in 1..Len(q) :
    /\ k - 1 <= Len(p)
    /\ SubSeq(p, 1, k - 1) = SubSeq(q, 1, k - 1)
    /\ (k > Len(p) \/ p[k] < q[k])

SameLetter(c, d) ==
  \/ c = d
  \/ \E i \in DOMAIN UpperSeq : {c, d} = {UpperSeq[i], LowerSeq[i]}

EqualsAnyCase(s, t) ==
  Len(s) = Len(t) /\ \A i \in DOMAIN s : SameLetter(s[i], t[i])

ContainsAnyCase(s, sub) ==
  \E i \in 1..(Len(s) - Len(sub) + 1) : EqualsAnyCase(SubSeq(s, i, i + Len(sub) - 1), sub)

\* Explicitly hidden, as the specification words it
ExplicitlyHidden(el) ==
  \/ /\ el.attrs.style # <<>>
     /\ \/ ContainsAnyCase(el.attrs.style[1], DISPLAY_NONE)
        \/ ContainsAnyCase(el.attrs.style[1], VISIBILITY_HIDDEN)
  \/ /\ el.attrs.aria_hidden # <<>>
     /\ EqualsAnyCase(el.attrs.aria_hidden[1], TRUE_STR)
  \/ el.attrs.hidden # <<>>

IsBlankText(s) == \A i \in DOMAIN s : s[i] \in {SP, TAB, NL, NBSP}

Collected == pc \in {"nbsp", "spaces", "newlines", "done"}

PartIds == {parts[i].id : i \in DOMAIN parts}

\* One fragment as it stands in the body text
Normal(s) == CollapseNewlines(CollapseSpaces(ReplaceNbsp(Strip(s))))

\* ------------------------------------------------------------ the claims
\* C1: extracting the example document (title element "Test", paragraph
\* "Hello&nbsp;World", then a display:none span "Hidden") gives the title
\* "Test" and the body text exactly "Hello World".
C1_ExampleYieldsHelloWorld ==
  (pc = "done" /\ html = ExampleDoc) =>
    /\ title = <<"T","e","s","t">>
    /\ full = <<"H","e","l","l","o",SP,"W","o","r","l","d">>

\* The text content of an element: its text strings, in order, concatenated
TextContent(el) ==
  LET strs == SelectSeq(Descendants(el), LAMBDA d : d.kind = "text")
  IN JoinWith(<<>>, [i \in DOMAIN strs |-> strs[i].s])

TitleElements == {n \in Nodes : n.kind = "tag" /\ n.name = "title"}

\* C2: the returned title is the title element's text content, trimmed,
\* whatever the shape of the element's children, and is empty when there is
\* no title element or its text content is empty or only whitespace.
C2_TitleIsTrimmedTextContent ==
  pc = "done" =>
    /\ TitleElements = {} => title = <<>>
    /\ \A t \in TitleElements : title = Strip(TextContent(t))

\* C3: a string node whose direct parent is explicitly hidden is never
\* yielded and adds nothing to the body text (the body text is that of the
\* document without the node); the collector decides hidden exactly when the
\* parent is explicitly hidden, so a parent without these attributes never is.
C3_HiddenParentNeverYielded ==
  /\ \A n \in StringNodes :
       ExplicitlyHidden(ParentNode(n)) =>
         /\ n.id \notin PartIds
         /\ pc = "done" => full = extract_all_visible_text(RemoveNode(Doc, n.id)).text
  /\ \A n \in StringNodes :
       (Collected /\ n.kind = "text" /\ ParentNode(n).attrs = NoAttrs
          /\ ~IsBlankText(n.s) /\ ~InBadSubtree(n)) => n.id \in PartIds

C3_Witness ==
  /\ pc = "done"
  /\ parts # <<>>
  /\ \E n \in StringNodes :
       /\ ~IsBlankText(n.s)
       /\ ~InBadSubtree(n)
       /\ ParentNode(n).attrs.style = <<Upper(DISPLAY_NONE)>>
  /\ \E n \in StringNodes :
       /\ ~IsBlankText(n.s)
       /\ ParentNode(n).attrs.hidden = <<FALSE_STR>>

\* C4: a text node that is not blank and whose direct parent is not hidden
\* is yielded and stands in the body text, also when a higher ancestor is
\* explicitly hidden (text nodes of the tree the collector walks: those the
\* removal of script, style, noscript and template left in it).
C4_OnlyDirectParentDecides ==
  \A n \in StringNodes :
    (n.kind = "text" /\ ~IsBlankText(n.s) /\ ~InBadSubtree(n)
       /\ ~ExplicitlyHidden(ParentNode(n))) =>
      /\ Collected => n.id \in PartIds
      /\ pc = "done" => Contains(full, Normal(n.s))

C4_Witness ==
  /\ pc = "done"
  /\ \E n \in StringNodes :
       /\ n.kind = "text"
       /\ ~IsBlankText(n.s)
       /\ ~ExplicitlyHidden(ParentNode(n))
       /\ \E a \in Ancestors(n) : ExplicitlyHidden(a)
       /\ n.id \in PartIds
       /\ Contains(full, n.s)

\* The fragments the collector yields when nothing is removed first
UnsanitizedParts ==
  LET kept == SelectSeq(FindAllStrings(Doc), LAMBDA e : ~SkipsHidden(e) /\ ~SkipsBlank(e))
  IN [i \in DOMAIN kept |-> Yielded(kept[i])]

Removed(id) == InBadSubtree(NodeAt(id)) \/ NodeAt(id).kind = "comment"

\* C5: no string inside a script, style, noscript or template element, at
\* any depth, and no comment is among the yielded fragments or in the body
\* text, and the strings outside them are yielded as if nothing were removed.
C5_RemovedSubtreesYieldNothing ==
  /\ \A n \in StringNodes : Removed(n.id) => n.id \notin PartIds
  /\ Collected =>
       parts = SelectSeq(UnsanitizedParts, LAMBDA p : ~Removed(p.id))
  /\ pc = "done" =>
       full = CollapseNewlines(CollapseSpaces(ReplaceNbsp(JoinParts(
                SelectSeq(UnsanitizedParts, LAMBDA p : ~Removed(p.id))))))

C5_Witness ==
  /\ pc = "done"
  /\ parts # <<>>
  /\ \E n \in StringNodes :
       /\ n.kind = "text"
       /\ Len(n.id) >= 5
       /\ \E a \in Ancestors(n) : a.name = "template"
       /\ ParentNode(n).name = "div"
  /\ \E n \in StringNodes : n.kind = "comment"
  /\ Len(UnsanitizedParts) > Len(parts)

HasRun(s, chars, n) ==
  \E i \in 1..(Len(s) - n + 1) : \A j \in i..(i + n - 1) : s[j] \in chars

\* C6: the body text has no three consecutive newlines, no two consecutive
\* space or tab characters, no non-breaking space, and no leading or trailing
\* whitespace.
C6_BodyTextIsNormalized ==
  pc = "done" =>
    /\ ~HasRun(full, {NL}, 3)
    /\ ~HasRun(full, {SP, TAB}, 2)
    /\ ~HasRun(full, {NBSP}, 1)
    /\ full # <<>> => (full[1] \notin {SP, TAB, NL, NBSP}
                        /\ full[Len(full)] \notin {SP, TAB, NL, NBSP})

C6_Witness ==
  /\ pc = "done"
  /\ \E i \in DOMAIN parts : HasRun(Strip(parts[i].txt), {NL}, 3)
  /\ HasRun(full, {NL}, 2)

\* C7: the yielded fragments are string nodes of the document, each with the
\* node's content, in strictly increasing document order (none moved, none
\* twice), and the body text is the trimmed fragments in that order, each as
\* normalised, with one newline between two neighbours.
C7_DocumentOrderKept ==
  /\ \A i \in DOMAIN parts :
       /\ \E n \in StringNodes : n.id = parts[i].id /\ n.s = parts[i].txt
       /\ \A j \in DOMAIN parts : i < j => Before(parts[i].id, parts[j].id)
  /\ pc = "done" =>
       full = JoinWith(<<NL>>, [i \in DOMAIN parts |-> Normal(parts[i].txt)])

C7_Witness ==
  /\ pc = "done"
  /\ Len(parts) >= 3
  /\ \E i \in DOMAIN parts : Len(parts[i].id) # Len(parts[1].id)
  /\ Cardinality(StringNodes) > Len(parts)

\* C10 as stated: every yielded fragment is non-empty and has no leading or
\* trailing whitespace.
C10_FragmentsAreTrimmed ==
  \A i \in DOMAIN parts :
    /\ parts[i].txt # <<>>
    /\ parts[i].txt[1] \notin {SP, TAB, NL, NBSP}
    /\ parts[i].txt[Len(parts[i].txt)] \notin {SP, TAB, NL, NBSP}

\* C10, amended: every yielded fragment is the raw content of its node,
\* non-empty and not only whitespace; it is trimmed when the body text is
\* joined, not when it is yielded.
C10_FragmentsAreRawAndNotBlank ==
  /\ \A i \in DOMAIN parts :
       /\ parts[i].txt # <<>>
       /\ ~IsBlankText(parts[i].txt)
       /\ parts[i].txt = NodeAt(parts[i].id).s
  /\ pc = "nbsp" =>
       full = JoinWith(<<NL>>, [i \in DOMAIN parts |-> Strip(parts[i].txt)])

C10_Witness ==
  /\ Collected
  /\ \E i \in DOMAIN parts : Strip(parts[i].txt) # parts[i].txt
  /\ \E n \in StringNodes : n.kind = "text" /\ IsBlankText(n.s) /\ ~InBadSubtree(n)

\* The lines that hold a URL not seen on an earlier line (tl: the trimmed lines)
FirstOccurrences(tl) ==
  {k \in DOMAIN tl : tl[k] # <<>> /\ \A j \in 1..(k - 1) : tl[j] # tl[k]}

StartsWith(s, pre) == Len(s) >= Len(pre) /\ SubSeq(s, 1, Len(pre)) = pre

LoopDone == pc \in {"zip", "zipped"}

\* C8: the URL list is the distinct trimmed lines in first-occurrence order,
\* at most 10 of them; every URL gets exactly one row, in list order; a
\* failed URL's row has an empty title, an empty text and a note starting
\* with "Error:", a successful URL's row has an empty note and the extracted
\* title and text, whatever happened to the URLs before it; the loop ends
\* with as many rows as URLs.
C8_OneRowPerUrl ==
  /\ pc # "batch" =>
       LET tl == [k \in DOMAIN urls_text |-> Strip(urls_text[k])]
           firsts == FirstOccurrences(tl)
           n == Cardinality(firsts)
       IN /\ Len(urls) = (IF n < 10 THEN n ELSE 10)
          /\ \A k \in DOMAIN urls :
               \E f \in firsts :
                 /\ tl[f] = urls[k]
                 /\ Cardinality({g \in firsts : g < f}) = k - 1
  /\ pc = "loop" => Len(rows) = ix - 1
  /\ LoopDone => Len(rows) = Len(urls)
  /\ Len(outcomes) = Len(rows)
  /\ \A k \in DOMAIN rows :
       /\ rows[k].url = urls[k]
       /\ outcomes[k] = "failed" =>
            /\ rows[k].title = <<>>
            /\ rows[k].text = <<>>
            /\ rows[k].notes # <<>>
            /\ StartsWith(rows[k].notes, <<"E","r","r","o","r",":">>)
       /\ outcomes[k] = "ok" =>
            /\ rows[k].notes = <<>>
            /\ [title |-> rows[k].title, text |-> rows[k].text]
                 = extract_all_visible_text(Web(urls[k]))

C8_Witness ==
  /\ pc = "zipped"
  /\ Len(urls_text) > 10
  /\ Cardinality(FirstOccurrences([k \in DOMAIN urls_text |-> Strip(urls_text[k])])) > 10
  /\ Len(rows) = 10
  /\ outcomes[1] = "failed"
  /\ outcomes[2] = "ok"
  /\ outcomes[10] = "failed"

AlnumOrUnderscore == Alnum \cup {"_"}

\* The part of a file name after its host and path parts, ".txt" left out
NameRest(name, lead) == SubSeq(name, Len(lead) + 1, Len(name) - 4)

\* C9: a record's file name is its 1-based index as two digits, "_", the
\* URL's host part, "_", the URL's path part and, when the URL has a query,
\* "_" and a suffix of at most 24 alphanumeric or underscore characters, then
\* ".txt"; the file names of one batch are pairwise distinct.
C9_FileNames ==
  /\ \A k \in DOMAIN fnames :
       LET u == Urlparse(rows[k].url)
           host == IF u.netloc = <<>> THEN <<"s","i","t","e">>
                   ELSE [j \in DOMAIN u.netloc |->
                           IF u.netloc[j] = ":" THEN "_" ELSE u.netloc[j]]
           path0 == StripSet(u.path, {"/"})
           path == IF path0 = <<>> THEN <<"i","n","d","e","x">>
                   ELSE [j \in DOMAIN path0 |-> IF path0[j] = "/" THEN "_" ELSE path0[j]]
           lead == <<DigitSeq[(k \div 10) + 1], DigitSeq[(k % 10) + 1], "_">>
                     \o host \o <<"_">> \o path
           rest == NameRest(fnames[k], lead)
       IN /\ k <= 10
          /\ StartsWith(fnames[k], lead)
          /\ SubSeq(fnames[k], Len(fnames[k]) - 3, Len(fnames[k])) = <<".","t","x","t">>
          /\ u.query = <<>> => rest = <<>>
          /\ u.query # <<>> =>
               /\ rest # <<>>
               /\ rest[1] = "_"
               /\ Len(rest) - 1 <= 24
               /\ \A j \in DOMAIN rest : rest[j] \in AlnumOrUnderscore
  /\ \A j, k \in DOMAIN fnames : j # k => fnames[j] # fnames[k]

C9_Witness ==
  /\ pc = "zipped"
  /\ Len(fnames) >= 2
  /\ \E k \in DOMAIN fnames :
       /\ Len(Urlparse(rows[k].url).query) > 24
       /\ Len(fnames[k]) - Len(safe_name(k, HTTP \o HOST \o <<"/","a">>)) = 25
  /\ \E k \in DOMAIN fnames : Urlparse(rows[k].url).netloc = <<>>

====
